---- MODULE Spec2Model ----
(***************************************************************************)
(* Batch ingestion, truncate-load and streaming consumer of the            *)
(* sql-data-migration-poc repository (data_migration/services.py,          *)
(* validators.py, management/commands/*.py).                               *)
(*                                                                         *)
(* The relational store is a function from table name to the sequence of   *)
(* committed rows. A row is a record with the five columns of the widest   *)
(* table plus `off`, the position of the record in its source (file row    *)
(* number or stream offset), which only identifies the record.             *)
(*                                                                         *)
(* Column values: a positive integer is itself, 0 stands for any           *)
(* non-positive number, NULL for an absent/blank value and JUNK for a      *)
(* non-numeric text. Names and dates are symbolic strings.                 *)
(***************************************************************************)
EXTENDS Integers, Sequences, FiniteSets, TLC

VARIABLES
    db,         \* table name -> sequence of committed rows
    seq,        \* next value of the identity sequence of hired_employees.id
    faults,     \* infrastructure failures injected so far
    \* ---- orchestrated migration (run_migration_truncate_load / run_full_migration)
    mode,       \* "steps" | "full" | "none"
    fileExists, \* table -> os.path.exists(csv_path)
    csv,        \* table -> rows of the local CSV file
    minio,      \* table -> sequence of staged files under raw_data/{table}/
    mpc,        \* position of the migration process
    midx,       \* index of the current table in the iteration order
    chunks,     \* cleaned rows of the file being loaded, still to be chunk-loaded
    results,    \* table -> "none" | "success" | "failed" | "file_not_found"
    mlog,       \* ghost record of the current and past truncate-loads
    \* ---- streaming consumer (run_kafka_consumer)
    cpc,        \* position of the consumer's main loop
    running,    \* the stop flag of the loop
    buffers,    \* table -> list of buffered payloads
    last_flush, \* table -> idle windows since the last flush (capped), NULL: no entry yet
    frame,      \* locals of the loop and of the _flush call in progress
    kafka,      \* the upstream consumer: messages polled, signal received, closed
    vlog,       \* DataMigrationLog: offsets of the logged rejections, in order
    clog,       \* ghost record of what happened to each streamed record
    \* ---- backups in object storage and whole operations on the store
    backups,    \* table -> snapshot directories under backups/{table}/, in key order
    clock,      \* datetime.utcnow(), in whole seconds
    disk,       \* temporary files under /tmp
    pg,         \* the store connections that are open
    slog,       \* ghost record of the last whole operation on the store
    \* ---- one call of validate_and_log_record
    vcall       \* the table and record passed, and what the call returned

dbVars == <<db, seq, faults>>
migVars == <<mode, fileExists, csv, minio, mpc, midx, chunks, results, mlog>>
conVars == <<cpc, running, buffers, last_flush, frame, kafka, vlog, clog>>
bakVars == <<backups, clock, disk, pg, slog>>
valVars == <<vcall>>
vars == <<db, seq, faults, mode, fileExists, csv, minio, mpc, midx, chunks, results, mlog,
          cpc, running, buffers, last_flush, frame, kafka, vlog, clog,
          backups, clock, disk, pg, slog, vcall>>

----------------------------------------------------------------------------
(* Bounds of the model *)

\* failures the environment may inject in one behaviour
MaxFaults == 1
\* DataMigrationService.batch_size and --batch-size (1000 in the source) scaled down
batch_size == 2
\* messages the consumer polls in one behaviour
MaxMsgs == 3
\* chunk_size of backup and restore (default 1000 in the source) scaled down
chunk_size == 2
\* whole operations run on the store in one behaviour
MaxOps == 2

----------------------------------------------------------------------------
(* Values *)

NULL == -1
JUNK == -2
\* an integer above 2147483647
BIG == -3

Tables == {"departments", "jobs", "hired_employees"}

Row(i, n, d, dep, job, o) ==
    [id |-> i, name |-> n, datetime |-> d, department_id |-> dep, job_id |-> job, off |-> o]

\* a departments / jobs row: the three employee columns are absent
Ref(i, n, o) == Row(i, n, "", NULL, NULL, o)

Ids(rows) == {rows[k].id : k \in 1..Len(rows)}

RECURSIVE Flatten(_)
Flatten(ss) == IF ss = <<>> THEN <<>> ELSE Head(ss) \o Flatten(Tail(ss))

----------------------------------------------------------------------------
(* The relational store: models.py constraints and the SQL the code issues *)

\* a store whose tables carry no primary key
PrimaryKeyAbsent(existing, rows) == TRUE

\* Department.id / Job.id / HiredEmployee.id are primary keys: a COPY whose
\* ids repeat, or repeat an id already in the table, is refused as a whole.
PrimaryKeyOk(existing, rows) ==
    /\ \A k \in 1..Len(rows) : rows[k].id >= 0
    /\ \A j, k \in 1..Len(rows) : rows[j].id = rows[k].id => j = k
    /\ Ids(rows) \cap Ids(existing) = {}

\* HiredEmployee.department / .job are foreign keys with a database constraint.
ForeignKeyOk(d, t, rows) ==
    t = "hired_employees" =>
        \A k \in 1..Len(rows) :
            /\ rows[k].department_id \in Ids(d["departments"])
            /\ rows[k].job_id \in Ids(d["jobs"])

\* name is NOT NULL; datetime is NOT NULL and must be a timestamp.
ColumnsOk(t, rows) ==
    \A k \in 1..Len(rows) :
        /\ rows[k].name # ""
        /\ t = "hired_employees" => rows[k].datetime \in {"past", "future"}

\* cursor.copy_from(...) followed by conn.commit(): all rows or none.
CopyAccepts(d, t, rows) ==
    /\ PrimaryKeyOk(d[t], rows)
    /\ ForeignKeyOk(d, t, rows)
    /\ ColumnsOk(t, rows)

CopyInto(d, t, rows) == [d EXCEPT ![t] = @ \o rows]

\* tables that TRUNCATE ... CASCADE empties together with t
Cascade(t) == IF t \in {"departments", "jobs"} THEN {t, "hired_employees"} ELSE {t}

\* a truncate that removes nothing
TruncateNothing(d, t) == d

\* TRUNCATE TABLE t RESTART IDENTITY CASCADE
TruncateTable(d, t) == [u \in Tables |-> IF u \in Cascade(t) THEN <<>> ELSE d[u]]

RestartIdentity(s, t) == IF "hired_employees" \in Cascade(t) THEN 1 ELSE s

----------------------------------------------------------------------------
(* DataMigrationService._clean_dataframe *)

RECURSIVE DropDuplicates(_, _)
\* df.drop_duplicates(subset=['id'], keep='first')
DropDuplicates(rows, seen) ==
    IF rows = <<>> THEN <<>>
    ELSE IF Head(rows).id \in seen THEN DropDuplicates(Tail(rows), seen)
    ELSE <<Head(rows)>> \o DropDuplicates(Tail(rows), seen \cup {Head(rows).id})

EmployeeRowKept(r) ==
    /\ r.id # NULL /\ r.name # "" /\ r.datetime # ""
    /\ r.department_id # NULL /\ r.job_id # NULL
    /\ r.datetime # "junk"
    /\ r.department_id # JUNK /\ r.job_id # JUNK
    /\ r.department_id > 0 /\ r.job_id > 0

RefRowKept(r) == r.id # NULL /\ r.name # ""

\* hired_employees: null/blank rows, bad dates and bad department/job ids are
\* dropped, then duplicates by id. departments/jobs: astype('int32') raises on
\* a non-numeric id and the except branch returns the frame as it then is,
\* before the duplicates were dropped.
CleanDataframe(t, rows) ==
    IF t = "hired_employees"
    THEN DropDuplicates(SelectSeq(rows, EmployeeRowKept), {})
    ELSE LET kept == SelectSeq(rows, RefRowKept)
         IN IF JUNK \in Ids(kept) THEN kept ELSE DropDuplicates(kept, {})

\* a slice that takes the whole frame
WholeFrame(rows) == rows

\* df.iloc[i:i + batch_size] for the first chunk, and what follows it
FirstChunk(rows) == SubSeq(rows, 1, IF Len(rows) < batch_size THEN Len(rows) ELSE batch_size)
RestChunks(rows) == SubSeq(rows, Len(FirstChunk(rows)) + 1, Len(rows))

RECURSIVE SplitChunks(_)
SplitChunks(rows) ==
    IF rows = <<>> THEN <<>> ELSE <<FirstChunk(rows)>> \o SplitChunks(RestChunks(rows))

----------------------------------------------------------------------------
(* validators.py: DataQualityValidator and validate_and_log_record *)

\* `not record[field]` is true of an absent key, None, '' and 0
Falsy(v) == v = NULL \/ v = 0

NameErrors(n) ==
    IF n = "X" THEN {"name_too_short"}
    ELSE IF n = "R&D!" THEN {"name_invalid_chars"}
    ELSE {}

\* int(record[f]) raises ValueError on a non-numeric text
RefErrors(f, v, existing) ==
    IF v = JUNK THEN {f \o "_not_integer"}
    ELSE IF v <= 0 THEN {f \o "_not_positive"}
    ELSE IF v \notin Ids(existing) THEN {f \o "_not_found"}
    ELSE {}

IdErrors(v, existing, max) ==
    IF v = NULL THEN {}
    ELSE IF v = JUNK THEN {"id_not_integer"}
    ELSE IF v = 0 \/ v = BIG \/ v > max THEN {"id_out_of_range"}
    ELSE IF v \in Ids(existing) THEN {"id_exists"}
    ELSE {}

Rejection(kind, errs) == [valid |-> FALSE, kind |-> kind, errors |-> errs]
Accepted == [valid |-> TRUE, kind |-> "", errors |-> {}]

\* 2147483647 in the source; the one id of the model above it is BIG
MaxInt32 == 2147483647

\* a validator that accepts every record
ValidateNothing(d, r) == Accepted

ValidateHiredEmployee(d, r) ==
    LET missing == {f \in {"name", "datetime", "department_id", "job_id"} :
                       \/ f = "name" /\ r.name = ""
                       \/ f = "datetime" /\ r.datetime = ""
                       \/ f = "department_id" /\ Falsy(r.department_id)
                       \/ f = "job_id" /\ Falsy(r.job_id)}
        nameErrs == NameErrors(r.name)
        dateErrs == IF r.datetime = "future" THEN {"date_in_future"} ELSE {}
        errs == nameErrs \cup dateErrs
                \cup RefErrors("department_id", r.department_id, d["departments"])
                \cup RefErrors("job_id", r.job_id, d["jobs"])
                \cup IdErrors(r.id, d["hired_employees"], MaxInt32)
    IN IF missing # {} THEN Rejection("MISSING_REQUIRED_FIELDS", {"missing_" \o f : f \in missing})
       ELSE IF r.datetime = "junk" THEN Rejection("VALIDATION_ERROR", nameErrs \cup {"date_format"})
       ELSE IF errs # {} THEN Rejection("VALIDATION_ERROR", errs)
       ELSE Accepted

\* validate_department and validate_job: the same code on their own table;
\* the id has no upper limit here
ValidateRef(existing, r) ==
    LET errs == NameErrors(r.name)
                \cup (IF r.id = NULL THEN {}
                      ELSE IF r.id = JUNK THEN {"id_not_integer"}
                      ELSE IF r.id = 0 THEN {"id_not_positive"}
                      ELSE IF r.id \in Ids(existing) THEN {"id_exists"}
                      ELSE {})
    IN IF r.name = "" THEN Rejection("MISSING_REQUIRED_FIELDS", {"missing_name"})
       ELSE IF errs # {} THEN Rejection("VALIDATION_ERROR", errs)
       ELSE Accepted

Validate(d, t, r) ==
    IF t = "hired_employees" THEN ValidateHiredEmployee(d, r)
    ELSE IF t \in {"departments", "jobs"} THEN ValidateRef(d[t], r)
    ELSE Rejection("UNKNOWN_TABLE", {"unknown_table"})

----------------------------------------------------------------------------
(* Orchestrated migration: Command.handle of run_migration_truncate_load   *)
(* ("steps") and DataMigrationService.run_full_migration ("full")          *)

\* steps: Paso 1..3 of Command.handle; full: the key order of csv_files
TableOrder(m) ==
    IF m = "steps" THEN <<"departments", "jobs", "hired_employees">>
    ELSE <<"hired_employees", "departments", "jobs">>

CurTable == TableOrder(mode)[midx]

\* the environment may fail a store or object-storage call
MayFail == faults < MaxFaults

\* an orchestrator that goes on to the next table whatever the outcome
NextTableAlways(st) ==
    /\ results' = [results EXCEPT ![CurTable] = st]
    /\ IF midx = Len(TableOrder(mode))
       THEN mpc' = "done" /\ midx' = midx
       ELSE mpc' = "check" /\ midx' = midx + 1

\* what follows the end of one table's migration with outcome st
NextTable(st) ==
    /\ results' = [results EXCEPT ![CurTable] = st]
    /\ IF (mode = "steps" /\ st # "success") \/ midx = Len(TableOrder(mode))
       THEN mpc' = "done" /\ midx' = midx
       ELSE mpc' = "check" /\ midx' = midx + 1

\* os.path.exists(csv_path)
CheckFile ==
    /\ mpc = "check"
    /\ IF fileExists[CurTable]
       THEN mpc' = "stage" /\ UNCHANGED <<midx, results>>
       ELSE NextTable("file_not_found")
    /\ UNCHANGED <<db, seq, faults, mode, fileExists, csv, minio, chunks, mlog>>
    /\ UNCHANGED <<conVars, bakVars, valVars>>

\* load_csv_to_minio: validate_csv_structure, then upload_file to
\* raw_data/{table}/{table}.csv
StageFile ==
    /\ mpc = "stage"
    /\ \/ /\ csv[CurTable].header # "partial"
          /\ minio' = [minio EXCEPT ![CurTable] = <<csv[CurTable]>>]
          /\ mpc' = "truncate"
          /\ UNCHANGED <<faults, midx, results>>
       \/ /\ csv[CurTable].header = "partial"
          /\ NextTable("failed")
          /\ UNCHANGED <<faults, minio>>
       \/ /\ csv[CurTable].header # "partial"
          /\ MayFail
          /\ faults' = faults + 1
          /\ NextTable("failed")
          /\ UNCHANGED minio
    /\ UNCHANGED <<db, seq, mode, fileExists, csv, chunks, mlog>>
    /\ UNCHANGED <<conVars, bakVars, valVars>>

\* load_from_minio_to_postgres, first statement: _truncate_table_before_load.
\* A failure is logged and swallowed.
TruncateStep ==
    /\ mpc = "truncate"
    /\ \/ /\ db' = TruncateTable(db, CurTable)
          /\ seq' = RestartIdentity(seq, CurTable)
          /\ mlog' = [mlog EXCEPT !.prior = db[CurTable], !.truncated = TRUE,
                                  !.cleaned = <<>>, !.failedAt = 0, !.loaded = 0,
                                  !.ret = "none", !.readFailed = FALSE,
                                  !.started = Append(@, CurTable), !.attempts = 0]
          /\ UNCHANGED faults
       \/ /\ MayFail
          /\ faults' = faults + 1
          /\ mlog' = [mlog EXCEPT !.prior = db[CurTable], !.truncated = FALSE,
                                  !.cleaned = <<>>, !.failedAt = 0, !.loaded = 0,
                                  !.ret = "none", !.readFailed = FALSE,
                                  !.started = Append(@, CurTable), !.attempts = 0]
          /\ UNCHANGED <<db, seq>>
    /\ mpc' = "list"
    /\ UNCHANGED <<mode, fileExists, csv, minio, midx, chunks, results>>
    /\ UNCHANGED <<conVars, bakVars, valVars>>

\* list_objects_v2, then for the staged .csv: get_object and _process_csv up
\* to the cleaned frame. A listing failure reaches the outer except (return
\* False); a failure on the file is caught inside the loop (continue).
ReadStaged ==
    /\ mpc = "list"
    /\ \/ /\ MayFail
          /\ faults' = faults + 1
          /\ mpc' = "ret"
          /\ mlog' = [mlog EXCEPT !.ret = "false"]
          /\ UNCHANGED chunks
       \/ /\ MayFail
          /\ faults' = faults + 1
          /\ mpc' = "ret"
          /\ mlog' = [mlog EXCEPT !.ret = "true", !.readFailed = TRUE]
          /\ UNCHANGED chunks
       \/ /\ UNCHANGED faults
          /\ LET df == CleanDataframe(CurTable, minio[CurTable][1].rows)
             IN /\ chunks' = df
                /\ mlog' = [mlog EXCEPT !.cleaned = df,
                                        !.ret = IF df = <<>> THEN "true" ELSE "none"]
                /\ mpc' = IF df = <<>> THEN "ret" ELSE "load"
    /\ UNCHANGED <<db, seq, mode, fileExists, csv, minio, midx, results>>
    /\ UNCHANGED <<conVars, bakVars, valVars>>

\* one iteration of _load_with_copy_batches: _load_with_copy of the next
\* chunk in its own connection and transaction. A failure is re-raised up to
\* the loop of load_from_minio_to_postgres, which logs it and continues.
LoadChunk ==
    /\ mpc = "load"
    /\ LET batch == FirstChunk(chunks)
       IN \/ /\ CopyAccepts(db, CurTable, batch)
             /\ db' = CopyInto(db, CurTable, batch)
             /\ chunks' = RestChunks(chunks)
             /\ mlog' = [mlog EXCEPT !.loaded = @ + 1, !.attempts = @ + 1,
                                     !.ret = IF RestChunks(chunks) = <<>> THEN "true" ELSE @]
             /\ mpc' = IF RestChunks(chunks) = <<>> THEN "ret" ELSE "load"
             /\ UNCHANGED faults
          \/ /\ \/ ~CopyAccepts(db, CurTable, batch) /\ UNCHANGED faults
                \/ MayFail /\ faults' = faults + 1
             /\ chunks' = <<>>
             /\ mlog' = [mlog EXCEPT !.failedAt = mlog.loaded + 1, !.ret = "true",
                                     !.attempts = @ + 1]
             /\ mpc' = "ret"
             /\ UNCHANGED db
    /\ UNCHANGED <<seq, mode, fileExists, csv, minio, midx, results>>
    /\ UNCHANGED <<conVars, bakVars, valVars>>

\* the caller takes the boolean returned by load_from_minio_to_postgres
LoadReturn ==
    /\ mpc = "ret"
    /\ NextTable(IF mlog.ret = "true" THEN "success" ELSE "failed")
    /\ mlog' = [mlog EXCEPT !.ended = Append(@, CurTable),
                            !.chunkFailed = IF mlog.failedAt > 0 THEN @ \cup {CurTable} ELSE @,
                            !.loadFailed = IF \/ mlog.failedAt > 0
                                              \/ mlog.readFailed
                                              \/ mlog.ret = "false"
                                           THEN @ \cup {CurTable} ELSE @]
    /\ UNCHANGED <<db, seq, faults, mode, fileExists, csv, minio, chunks>>
    /\ UNCHANGED <<conVars, bakVars, valVars>>

NextMigrate ==
    \/ CheckFile
    \/ StageFile
    \/ TruncateStep
    \/ ReadStaged
    \/ LoadChunk
    \/ LoadReturn

----------------------------------------------------------------------------
(* Streaming consumer: Command.handle of run_kafka_consumer                *)

\* the idle window of the time-based flush; the clock of the model counts
\* in idle windows (2.0 seconds in the source)
IdleWindow == 1

Offsets == 1..MaxMsgs

Offs(rows) == {rows[k].off : k \in 1..Len(rows)}

HasId(r) == r.id # NULL
HasNoId(r) == r.id = NULL

\* rows of the first bulk load of a flush. hired_employees: with_id, after
\* to_datetime / to_numeric(errors='coerce') and dropna; departments and
\* jobs: the rows left by to_numeric and dropna(subset=['id','name']).
NumericRow(r) == r.id >= 0 /\ r.datetime # "junk" /\ r.department_id # JUNK /\ r.job_id # JUNK
NumericRef(r) == r.id >= 0 /\ r.name # ""

WithId(t, df) ==
    IF t = "hired_employees" THEN SelectSeq(SelectSeq(df, HasId), NumericRow)
    ELSE SelectSeq(df, NumericRef)

\* the first load is not called: with_id.empty, or tmp['id'] raises KeyError
\* because no payload of the batch carries an id
SkipsWithId(t, df) == SelectSeq(df, HasId) = <<>>
RaisesKeyError(t, df) == t # "hired_employees" /\ SelectSeq(df, HasId) = <<>>

RECURSIVE AssignIdentity(_, _)
\* COPY without the id column: each row takes the next value of the sequence
AssignIdentity(rows, s) ==
    IF rows = <<>> THEN <<>>
    ELSE <<[Head(rows) EXCEPT !.id = s]>> \o AssignIdentity(Tail(rows), s + 1)

WithoutId(t, df, s) ==
    IF t = "hired_employees" THEN AssignIdentity(SelectSeq(df, HasNoId), s) ELSE <<>>

\* the sequence after a COPY of rows that took their ids from it: a unique
\* violation stops at the offending row, values drawn are never given back
SequenceAfter(existing, rows, s) ==
    LET hit == {k \in 1..Len(rows) : rows[k].id \in Ids(existing)}
    IN IF hit = {} THEN s + Len(rows)
       ELSE s + (CHOOSE k \in hit : \A j \in hit : k <= j)

\* the store and what was handed to the loader, threaded through a flush
Store(d, s, h) == [db |-> d, seq |-> s, handed |-> h, ok |-> TRUE]

Hand(h, rows) == [o \in DOMAIN h |-> IF o \in Offs(rows) THEN h[o] + 1 ELSE h[o]]

\* svc._load_with_copy(tmp, table): one connection, one transaction
LoadWithCopy(st, t, rows, fault) ==
    IF ~fault /\ CopyAccepts(st.db, t, rows)
    THEN [st EXCEPT !.db = CopyInto(st.db, t, rows), !.handed = Hand(st.handed, rows)]
    ELSE [st EXCEPT !.ok = FALSE, !.handed = Hand(st.handed, rows)]

\* svc._load_with_copy_no_id(tmp2, 'hired_employees')
LoadWithCopyNoId(st, t, df, fault) ==
    LET rows == WithoutId(t, df, st.seq)
    IN IF fault THEN [st EXCEPT !.ok = FALSE, !.handed = Hand(st.handed, rows)]
       ELSE IF CopyAccepts(st.db, t, rows)
       THEN [st EXCEPT !.db = CopyInto(st.db, t, rows), !.seq = st.seq + Len(rows),
                       !.handed = Hand(st.handed, rows)]
       ELSE [st EXCEPT !.ok = FALSE, !.seq = SequenceAfter(st.db[t], rows, st.seq),
                       !.handed = Hand(st.handed, rows)]

\* the first bulk load of _flush(table) on the frame df
FlushFirst(st, t, df, fault) ==
    IF RaisesKeyError(t, df) THEN [st EXCEPT !.ok = FALSE]
    ELSE IF SkipsWithId(t, df) THEN st
    ELSE LoadWithCopy(st, t, WithId(t, df), fault)

\* the second bulk load of _flush(table): the rows without id
FlushSecond(st, t, df, fault) ==
    IF WithoutId(t, df, st.seq) = <<>> THEN st
    ELSE LoadWithCopyNoId(st, t, df, fault)

\* the try block of _flush(table) as a whole, as the signal handler runs it
FlushBody(st, t, df, f1, f2) ==
    LET a == FlushFirst(st, t, df, f1)
    IN IF a.ok THEN FlushSecond(a, t, df, f2) ELSE a

\* records of a batch that are the first of their explicit id
FirstOfId(df) == Offs(DropDuplicates(SelectSeq(df, HasId), {}))

\* ghost bookkeeping of buffers[table].clear() after a flush of df
Cleared(g, h, buf, df, faulted) ==
    [g EXCEPT !.handed = h,
              !.lost = @ \cup {o \in Offs(buf) : h[o] = 0},
              !.settled = IF faulted THEN @ ELSE @ \cup FirstOfId(df)]

Envelope(t, r) == [table |-> t, payload |-> r]

\* messages the topics may deliver
MessagePool ==
    { Envelope("departments", Ref(2, "Legal", 0)),
      Envelope("hired_employees", Row(5, "Ana", "future", 1, 1, 0)),
      Envelope("hired_employees", Row(3, "Ana", "past", 1, 1, 0)),
      Envelope("hired_employees", Row(NULL, "Luis", "past", 1, 1, 0)),
      Envelope("hired_employees", Row(4, "Eva", "past", 2, 1, 0)) }

\* a message the loop skips: msg.error(), a bad envelope, an unknown table
SkippedTables == {"payroll"}

NoFrame == [msg |-> Envelope("", Ref(NULL, "", 0)), tfq |-> <<>>, ftab |-> "",
            df |-> <<>>, fret |-> "", faulted |-> FALSE]

NoRecords == [handed |-> [o \in Offsets |-> 0], lost |-> {}, settled |-> {},
              rejected |-> {}, fkChecked |-> {}, appended |-> {}, infra |-> {}]

ConsumerIdle ==
    /\ cpc = "idle"
    /\ running = FALSE
    /\ buffers = [t \in Tables |-> <<>>]
    /\ last_flush = [t \in Tables |-> NULL]
    /\ frame = NoFrame
    /\ kafka = [polled |-> 0, signalled |-> FALSE, closed |-> FALSE]
    /\ vlog = <<>>
    /\ clog = NoRecords

\* last_flush[table]: the defaultdict makes the entry on first access
Touch(lf, t) == IF lf[t] = NULL THEN [lf EXCEPT ![t] = 0] ELSE lf

\* time.monotonic() advances by one idle window while the loop waits in poll
Tick ==
    /\ cpc = "poll"
    /\ \E t \in Tables : last_flush[t] # NULL /\ last_flush[t] < IdleWindow
    /\ last_flush' = [t \in Tables |->
          IF last_flush[t] # NULL /\ last_flush[t] < IdleWindow
          THEN last_flush[t] + 1 ELSE last_flush[t]]
    /\ UNCHANGED <<db, seq, faults, cpc, running, buffers, frame, kafka, vlog, clog>>
    /\ UNCHANGED <<migVars, bakVars, valVars>>

\* `while running:` and the except clause that brings the loop back here
LoopHead ==
    /\ cpc = "loop"
    /\ cpc' = IF running THEN "poll" ELSE "done"
    /\ UNCHANGED <<db, seq, faults, running, buffers, last_flush, frame, kafka, vlog, clog>>
    /\ UNCHANGED <<migVars, bakVars, valVars>>

\* consumer.poll(): a closed consumer raises (caught by the loop); no message
\* starts the time-based pass; an error, a bad envelope or an unknown table
\* is skipped; otherwise the message goes to validation
Poll ==
    /\ cpc = "poll"
    /\ \/ /\ kafka.closed
          /\ cpc' = "loop"
          /\ UNCHANGED <<frame, kafka>>
       \/ /\ ~kafka.closed
          /\ cpc' = "tflush"
          /\ frame' = [frame EXCEPT !.tfq = SelectSeq(<<"departments", "jobs", "hired_employees">>,
                                              LAMBDA t : last_flush[t] # NULL \/ buffers[t] # <<>>)]
          /\ UNCHANGED kafka
       \/ /\ ~kafka.closed
          /\ \E t \in SkippedTables : t \notin Tables
          /\ cpc' = "loop"
          /\ UNCHANGED <<frame, kafka>>
       \/ /\ ~kafka.closed
          /\ kafka.polled < MaxMsgs
          /\ \E m \in MessagePool :
                /\ kafka' = [kafka EXCEPT !.polled = @ + 1]
                /\ frame' = [frame EXCEPT !.msg =
                       Envelope(m.table, [m.payload EXCEPT !.off = kafka.polled + 1])]
                /\ cpc' = "validate"
    /\ UNCHANGED <<db, seq, faults, running, buffers, last_flush, vlog, clog>>
    /\ UNCHANGED <<migVars, bakVars, valVars>>

\* `for tbl in list(buffers.keys())` of the time-based pass
TimeFlush ==
    /\ cpc = "tflush"
    /\ IF frame.tfq = <<>>
       THEN cpc' = "loop" /\ UNCHANGED <<frame, last_flush>>
       ELSE LET t == Head(frame.tfq)
            IN IF buffers[t] # <<>> /\ Touch(last_flush, t)[t] >= IdleWindow
               THEN /\ cpc' = "f_begin"
                    /\ frame' = [frame EXCEPT !.tfq = Tail(@), !.ftab = t, !.fret = "tflush"]
                    /\ last_flush' = Touch(last_flush, t)
               ELSE /\ cpc' = "tflush"
                    /\ frame' = [frame EXCEPT !.tfq = Tail(@)]
                    /\ last_flush' = IF buffers[t] # <<>> THEN Touch(last_flush, t)
                                     ELSE last_flush
    /\ UNCHANGED <<db, seq, faults, running, buffers, kafka, vlog, clog>>
    /\ UNCHANGED <<migVars, bakVars, valVars>>

\* validate_and_log_record(table, payload, len(buffers[table])): a failing
\* store lookup raises into the loop's except clause; a rejection is logged
\* by log_failed_transaction, whose own failure is caught and dropped
ValidateRecord ==
    /\ cpc = "validate"
    /\ LET t == frame.msg.table
           r == frame.msg.payload
           v == Validate(db, t, r)
       IN \/ /\ MayFail
             /\ faults' = faults + 1
             /\ cpc' = "loop"
             /\ frame' = NoFrame
             /\ clog' = [clog EXCEPT !.infra = @ \cup {r.off}]
             /\ UNCHANGED vlog
          \/ /\ v.valid
             /\ cpc' = "append"
             /\ clog' = [clog EXCEPT !.fkChecked =
                            IF t = "hired_employees" THEN @ \cup {r.off} ELSE @]
             /\ UNCHANGED <<faults, vlog, frame>>
          \/ /\ ~v.valid
             /\ cpc' = "loop"
             /\ frame' = NoFrame
             /\ clog' = [clog EXCEPT !.rejected = @ \cup {r.off}]
             /\ \/ vlog' = Append(vlog, r.off) /\ UNCHANGED faults
                \/ MayFail /\ faults' = faults + 1 /\ UNCHANGED vlog
    /\ UNCHANGED <<db, seq, running, buffers, last_flush, kafka>>
    /\ UNCHANGED <<migVars, bakVars, valVars>>

\* buffers[table].append(payload)
AppendRecord ==
    /\ cpc = "append"
    /\ buffers' = [buffers EXCEPT ![frame.msg.table] = Append(@, frame.msg.payload)]
    /\ clog' = [clog EXCEPT !.appended = @ \cup {frame.msg.payload.off}]
    /\ cpc' = "size"
    /\ UNCHANGED <<db, seq, faults, running, last_flush, frame, kafka, vlog>>
    /\ UNCHANGED <<migVars, bakVars, valVars>>

\* a test that looks at the idle window only
FlushDueWhenIdle(n, idle) == idle >= IdleWindow

\* len(buffers[table]) >= batch_size or (time.monotonic() - last_flush[table] >= 2.0)
FlushDue(n, idle) == n >= batch_size \/ idle >= IdleWindow

\* flush on the size threshold or when the idle window has elapsed
SizeCheck ==
    /\ cpc = "size"
    /\ LET t == frame.msg.table
       IN /\ last_flush' = IF Len(buffers[t]) >= batch_size THEN last_flush
                           ELSE Touch(last_flush, t)
          /\ IF FlushDue(Len(buffers[t]), Touch(last_flush, t)[t])
             THEN /\ cpc' = "f_begin"
                  /\ frame' = [NoFrame EXCEPT !.ftab = t, !.fret = "loop"]
             ELSE /\ cpc' = "loop"
                  /\ frame' = NoFrame
    /\ UNCHANGED <<db, seq, faults, running, buffers, kafka, vlog, clog>>
    /\ UNCHANGED <<migVars, bakVars, valVars>>

\* _flush(table) called by the loop: items = buffers[table]; df = DataFrame(items)
FlushBegin ==
    /\ cpc = "f_begin"
    /\ IF buffers[frame.ftab] = <<>>
       THEN cpc' = frame.fret /\ frame' = [frame EXCEPT !.ftab = "", !.fret = ""]
       ELSE /\ cpc' = "f_load"
            /\ frame' = [frame EXCEPT !.df = buffers[frame.ftab], !.faulted = FALSE]
    /\ UNCHANGED <<db, seq, faults, running, buffers, last_flush, kafka, vlog, clog>>
    /\ UNCHANGED <<migVars, bakVars, valVars>>

\* the first bulk load of the flush in progress
FlushLoad ==
    /\ cpc = "f_load"
    /\ \E fault \in {FALSE} \cup (IF MayFail THEN {TRUE} ELSE {}) :
          LET st == FlushFirst(Store(db, seq, clog.handed), frame.ftab, frame.df, fault)
          IN /\ db' = st.db
             /\ seq' = st.seq
             /\ clog' = [clog EXCEPT !.handed = st.handed]
             /\ faults' = IF fault THEN faults + 1 ELSE faults
             /\ frame' = [frame EXCEPT !.faulted = fault]
             /\ cpc' = IF st.ok THEN "f_load2" ELSE "f_clear"
    /\ UNCHANGED <<running, buffers, last_flush, kafka, vlog>>
    /\ UNCHANGED <<migVars, bakVars, valVars>>

\* the second bulk load of the flush in progress (rows without id)
FlushLoadNoId ==
    /\ cpc = "f_load2"
    /\ \E fault \in {FALSE} \cup (IF MayFail THEN {TRUE} ELSE {}) :
          LET st == FlushSecond(Store(db, seq, clog.handed), frame.ftab, frame.df, fault)
          IN /\ db' = st.db
             /\ seq' = st.seq
             /\ clog' = [clog EXCEPT !.handed = st.handed]
             /\ faults' = IF fault THEN faults + 1 ELSE faults
             /\ frame' = [frame EXCEPT !.faulted = fault]
             /\ cpc' = "f_clear"
    /\ UNCHANGED <<running, buffers, last_flush, kafka, vlog>>
    /\ UNCHANGED <<migVars, bakVars, valVars>>

\* buffers[table].clear(); last_flush[table] = time.monotonic() -- at the end
\* of the try block and in the except clause alike
FlushClear ==
    /\ cpc = "f_clear"
    /\ buffers' = [buffers EXCEPT ![frame.ftab] = <<>>]
    /\ last_flush' = [last_flush EXCEPT ![frame.ftab] = 0]
    /\ clog' = Cleared(clog, clog.handed, buffers[frame.ftab], frame.df, frame.faulted)
    /\ cpc' = frame.fret
    /\ frame' = [frame EXCEPT !.df = <<>>, !.faulted = FALSE, !.ftab = "", !.fret = ""]
    /\ UNCHANGED <<db, seq, faults, running, kafka, vlog>>
    /\ UNCHANGED <<migVars, bakVars, valVars>>

RECURSIVE HandlerFlush(_, _, _, _, _)
\* `for tbl in list(buffers.keys()): _flush(tbl)` of the signal handler; F1
\* and F2 are the tables whose first / second bulk load the environment fails
HandlerFlush(st, g, ts, F1, F2) ==
    IF ts = <<>> THEN [st |-> st, g |-> g]
    ELSE LET t == Head(ts)
             a == FlushBody([st EXCEPT !.ok = TRUE], t, buffers[t], t \in F1, t \in F2)
         IN IF buffers[t] = <<>> THEN HandlerFlush(st, g, Tail(ts), F1, F2)
            ELSE HandlerFlush(a, Cleared(g, a.handed, buffers[t], buffers[t],
                                         t \in F1 \/ t \in F2),
                              Tail(ts), F1, F2)

\* shutdown(signum, frame): runs between any two steps of the loop
Shutdown ==
    /\ cpc \notin {"idle", "done"}
    /\ \E F1 \in SUBSET {t \in Tables : buffers[t] # <<>>} :
       \E F2 \in SUBSET {t \in Tables : t = "hired_employees" /\ buffers[t] # <<>> /\ t \notin F1} :
          /\ faults + Cardinality(F1) + Cardinality(F2) <= MaxFaults
          /\ LET out == HandlerFlush(Store(db, seq, clog.handed), clog,
                                     <<"departments", "jobs", "hired_employees">>, F1, F2)
             IN /\ db' = out.st.db
                /\ seq' = out.st.seq
                /\ clog' = out.g
          /\ faults' = faults + Cardinality(F1) + Cardinality(F2)
    /\ running' = FALSE
    /\ buffers' = [t \in Tables |-> <<>>]
    /\ last_flush' = [t \in Tables |-> IF buffers[t] # <<>> THEN 0 ELSE last_flush[t]]
    /\ kafka' = [kafka EXCEPT !.signalled = TRUE, !.closed = TRUE]
    /\ UNCHANGED <<cpc, frame, vlog>>
    /\ UNCHANGED <<migVars, bakVars, valVars>>

NextConsumer ==
    \/ Tick
    \/ LoopHead
    \/ Poll
    \/ TimeFlush
    \/ ValidateRecord
    \/ AppendRecord
    \/ SizeCheck
    \/ FlushBegin
    \/ FlushLoad
    \/ FlushLoadNoId
    \/ FlushClear
    \/ Shutdown

----------------------------------------------------------------------------
(* Backups and the ghost record of whole operations, at rest *)

NoOperation ==
    [op |-> "none", table |-> "", truncated |-> TRUE, refused |-> FALSE, n |-> 0,
     ok |-> TRUE, fault |-> "none", failedAt |-> 0, attempts |-> 0,
     before |-> <<>>, base |-> <<>>, input |-> <<>>, output |-> <<>>,
     follows |-> FALSE, ts |-> 0, written |-> 0, stage |-> "", conns |-> 0,
     afterFailure |-> FALSE, held |-> {}]

\* no store connection is open
NoConnections == {}

\* validate_and_log_record was not called
NoCall == [table |-> "", record |-> Ref(NULL, "", 0), result |-> Accepted, done |-> FALSE]

ValidatorIdle == vcall = NoCall

StoreIdle ==
    /\ backups = [t \in Tables |-> <<>>]
    /\ clock = 1
    /\ disk = {}
    /\ pg = NoConnections
    /\ slog = NoOperation

----------------------------------------------------------------------------
(* Inputs of the migration: local CSV files and the prior table contents *)

CsvFile(h, rows) == [header |-> h, rows |-> rows]

DepartmentFiles ==
    { CsvFile("full", <<Ref(1, "Sales", 1), Ref(2, "Legal", 2), Ref(3, "Ops", 3)>>),
      CsvFile("none", <<Ref(1, "Sales", 1), Ref(2, "Legal", 2), Ref(1, "Sales", 3)>>),
      CsvFile("none", <<Ref(1, "Sales", 1), Ref(JUNK, "Legal", 2), Ref(3, "Ops", 3)>>),
      CsvFile("partial", <<>>) }

JobFiles ==
    { CsvFile("full", <<Ref(1, "Dev", 1), Ref(2, "QA", 2)>>),
      CsvFile("none", <<Ref(1, "Dev", 1), Ref(NULL, "QA", 2), Ref(3, "", 3)>>) }

EmployeeFiles ==
    { CsvFile("full", <<Row(1, "Ana", "past", 1, 1, 1), Row(2, "Luis", "past", 2, 1, 2),
                        Row(3, "Eva", "future", 1, 1, 3)>>),
      CsvFile("none", <<Row(4, "Ana", "past", 1, 1, 1), Row(5, "Luis", "junk", 1, 1, 2),
                        Row(6, "Eva", "past", 9, 1, 3), Row(NULL, "Noe", "past", 1, 1, 4)>>),
      CsvFile("none", <<>>) }

EmptyDb == [t \in Tables |-> <<>>]

PopulatedDb ==
    [t \in Tables |->
        IF t = "departments" THEN <<Ref(1, "Sales", 0), Ref(7, "Old", 0)>>
        ELSE IF t = "jobs" THEN <<Ref(1, "Dev", 0)>>
        ELSE <<Row(1, "Ana", "past", 1, 1, 0)>>]

\* the tables after a migration of the full files
LoadedDb ==
    [t \in Tables |->
        IF t = "departments" THEN <<Ref(1, "Sales", 1), Ref(2, "Legal", 2), Ref(3, "Ops", 3)>>
        ELSE IF t = "jobs" THEN <<Ref(1, "Dev", 1), Ref(2, "QA", 2)>>
        ELSE <<Row(1, "Ana", "past", 1, 1, 1), Row(2, "Luis", "past", 2, 1, 2),
               Row(3, "Eva", "future", 1, 1, 3)>>]

NoLoad ==
    [prior |-> <<>>, truncated |-> FALSE, cleaned |-> <<>>, failedAt |-> 0, loaded |-> 0,
     ret |-> "none", readFailed |-> FALSE, started |-> <<>>, ended |-> <<>>,
     chunkFailed |-> {}, loadFailed |-> {}, attempts |-> 0]

InitMigrate ==
    /\ db \in {EmptyDb, PopulatedDb}
    /\ seq = 1
    /\ faults = 0
    /\ mode \in {"steps", "full"}
    /\ fileExists \in [Tables -> BOOLEAN]
    /\ \E d \in DepartmentFiles, j \in JobFiles, e \in EmployeeFiles :
          csv = [t \in Tables |-> IF t = "departments" THEN d
                                  ELSE IF t = "jobs" THEN j ELSE e]
    /\ minio = [t \in Tables |-> <<>>]
    /\ mpc = "check"
    /\ midx = 1
    /\ chunks = <<>>
    /\ results = [t \in Tables |-> "none"]
    /\ mlog = NoLoad
    /\ ConsumerIdle
    /\ StoreIdle
    /\ ValidatorIdle

SpecMigrate == InitMigrate /\ [][NextMigrate]_vars

MigrateIdle ==
    /\ mode = "none"
    /\ fileExists = [t \in Tables |-> FALSE]
    /\ csv = [t \in Tables |-> CsvFile("none", <<>>)]
    /\ minio = [t \in Tables |-> <<>>]
    /\ mpc = "idle"
    /\ midx = 1
    /\ chunks = <<>>
    /\ results = [t \in Tables |-> "none"]
    /\ mlog = NoLoad

ConsumerDb(emps) ==
    [t \in Tables |->
        IF t = "departments" THEN <<Ref(1, "Sales", 0)>>
        ELSE IF t = "jobs" THEN <<Ref(1, "Dev", 0)>>
        ELSE emps]

InitConsumer ==
    /\ db \in {ConsumerDb(<<>>), ConsumerDb(<<Row(1, "Ana", "past", 1, 1, 0)>>)}
    /\ seq = 1
    /\ faults = 0
    /\ MigrateIdle
    /\ cpc = "loop"
    /\ running = TRUE
    /\ buffers = [t \in Tables |-> <<>>]
    /\ last_flush = [t \in Tables |-> NULL]
    /\ frame = NoFrame
    /\ kafka = [polled |-> 0, signalled |-> FALSE, closed |-> FALSE]
    /\ vlog = <<>>
    /\ clog = NoRecords
    /\ StoreIdle
    /\ ValidatorIdle

SpecConsumer == InitConsumer /\ [][NextConsumer]_vars

\* the process is scheduled: the loop, the clock and the signal handler keep
\* taking steps while one of them can. What poll returns is up to the topics.
SpecConsumerLive == SpecConsumer /\ WF_vars(NextConsumer)

----------------------------------------------------------------------------
(* Whole operations on the store: a truncate-load, a stream flush, a       *)
(* backup and a restore, each from its first statement to its return       *)

\* batches a buffer may hold at a flush
StreamBatches(t) ==
    LET pool == {m.payload : m \in {e \in MessagePool : e.table = t}}
    IN {<<[r EXCEPT !.off = 1]>> : r \in pool}
       \cup {<<[r1 EXCEPT !.off = 1], [r2 EXCEPT !.off = 2]>> : r1 \in pool, r2 \in pool}

\* a truncate step whose failure reaches the caller
TruncateRaises(truncOk) == IF truncOk THEN "proceed" ELSE "abort"

\* _truncate_table_before_load catches every exception of the TRUNCATE and
\* only logs it: the caller goes on whether or not the table was truncated
TruncateOutcome(truncOk) == "proceed"

RECURSIVE LoadBatches(_, _, _, _, _)
\* _load_with_copy_batches from chunk k on: chunk failAt meets a store
\* failure; the first chunk that fails ends the loop
LoadBatches(d, t, rows, failAt, k) ==
    IF rows = <<>> THEN [db |-> d, refused |-> FALSE, attempts |-> k - 1]
    ELSE IF k = failAt THEN [db |-> d, refused |-> FALSE, attempts |-> k]
    ELSE IF ~CopyAccepts(d, t, FirstChunk(rows)) THEN [db |-> d, refused |-> TRUE, attempts |-> k]
    ELSE LoadBatches(CopyInto(d, t, FirstChunk(rows)), t, RestChunks(rows), failAt, k + 1)

\* a split that writes the whole table as one partition
SplitWhole(rows, n) == IF rows = <<>> THEN <<>> ELSE <<rows>>

RECURSIVE SplitBy(_, _)
\* cursor.fetchmany(chunk_size) until no row is left
SplitBy(rows, n) ==
    IF rows = <<>> THEN <<>>
    ELSE IF Len(rows) <= n THEN <<rows>>
    ELSE <<SubSeq(rows, 1, n)>> \o SplitBy(SubSeq(rows, n + 1, Len(rows)), n)

RECURSIVE UploadSkipping(_, _, _)
\* an upload loop that goes on after a failed upload
UploadSkipping(parts, failAt, k) ==
    IF parts = <<>> THEN [uploaded |-> <<>>, ok |-> TRUE, attempts |-> k - 1]
    ELSE LET rest == UploadSkipping(Tail(parts), failAt, k + 1)
         IN IF k = failAt THEN [rest EXCEPT !.ok = FALSE]
            ELSE [rest EXCEPT !.uploaded = <<Head(parts)>> \o @]

RECURSIVE UploadParts(_, _, _)
\* `for local_path, obj_key in tmp_files: client.upload_file(...)` from
\* partition k on: the upload of partition failAt raises and ends the loop
UploadParts(parts, failAt, k) ==
    IF parts = <<>> THEN [uploaded |-> <<>>, ok |-> TRUE, attempts |-> k - 1]
    ELSE IF k = failAt THEN [uploaded |-> <<>>, ok |-> FALSE, attempts |-> k]
    ELSE LET rest == UploadParts(Tail(parts), failAt, k + 1)
         IN [rest EXCEPT !.uploaded = <<Head(parts)>> \o @]

RECURSIVE RestoreSkipping(_, _, _, _, _)
\* a partition loop that goes on after a failed partition
RestoreSkipping(d, t, parts, failAt, k) ==
    IF parts = <<>> THEN [db |-> d, refused |-> FALSE, ok |-> TRUE, attempts |-> k - 1]
    ELSE IF k = failAt \/ ~CopyAccepts(d, t, Head(parts))
    THEN [RestoreSkipping(d, t, Tail(parts), failAt, k + 1) EXCEPT
              !.ok = FALSE, !.refused = @ \/ k # failAt]
    ELSE RestoreSkipping(CopyInto(d, t, Head(parts)), t, Tail(parts), failAt, k + 1)

RECURSIVE RestoreParts(_, _, _, _, _)
\* the partition loop of restore_table_from_parquet_in_minio: each partition
\* is downloaded, decoded and copied chunk by chunk in one transaction
\* (_restore_dataframe_to_postgres); the first partition that fails raises
\* out of the loop and the restore returns False
RestoreParts(d, t, parts, failAt, k) ==
    IF parts = <<>> THEN [db |-> d, refused |-> FALSE, ok |-> TRUE, attempts |-> k - 1]
    ELSE IF k = failAt THEN [db |-> d, refused |-> FALSE, ok |-> FALSE, attempts |-> k]
    ELSE IF ~CopyAccepts(d, t, Head(parts))
    THEN [db |-> d, refused |-> TRUE, ok |-> FALSE, attempts |-> k]
    ELSE RestoreParts(CopyInto(d, t, Head(parts)), t, Tail(parts), failAt, k + 1)

\* the directory backups/{table}/{ts}/ and its part files in key order; ts
\* stands for the 15 characters of strftime('%Y%m%dT%H%M%S'), whose order as
\* text is the order of the numbers
Snapshot(ts, parts) == [ts |-> ts, parts |-> parts]

\* client.upload_file(local_path, bucket, f"{object_prefix}/part-{part:04d}.parquet")
\* for each uploaded partition: an object already stored under the same key
\* is replaced, the other objects under the prefix stay
PutObjects(dirs, ts, uploaded) ==
    IF uploaded = <<>> THEN dirs
    ELSE IF \E i \in 1..Len(dirs) : dirs[i].ts = ts
    THEN [i \in 1..Len(dirs) |->
            IF dirs[i].ts # ts THEN dirs[i]
            ELSE Snapshot(ts, uploaded \o SubSeq(dirs[i].parts, Len(uploaded) + 1,
                                                 Len(dirs[i].parts)))]
    ELSE SelectSeq(dirs, LAMBDA x : x.ts < ts) \o <<Snapshot(ts, uploaded)>>
            \o SelectSeq(dirs, LAMBDA x : x.ts > ts)

\* the part files stored under backups/{t}/{ts}/
Stored(bk, t, ts) ==
    IF \E i \in 1..Len(bk[t]) : bk[t][i].ts = ts
    THEN bk[t][CHOOSE i \in 1..Len(bk[t]) : bk[t][i].ts = ts].parts
    ELSE <<>>

\* a choice of the prefix that sorts first
EarliestTimestamp(bk, t) ==
    IF bk[t] = <<>> THEN 0
    ELSE CHOOSE x \in {bk[t][i].ts : i \in 1..Len(bk[t])} :
            \A i \in 1..Len(bk[t]) : x <= bk[t][i].ts

\* get_latest_backup_path: sorted(backup_timestamps, reverse=True)[0] over
\* the common prefixes under backups/{table}/, None (0) when there is none
LatestTimestamp(bk, t) ==
    IF bk[t] = <<>> THEN 0
    ELSE CHOOSE x \in {bk[t][i].ts : i \in 1..Len(bk[t])} :
            \A i \in 1..Len(bk[t]) : x >= bk[t][i].ts

\* the part files restore_table_from_parquet_in_minio(t) lists when it is
\* given no backup_path
LatestSnapshot(bk, t) == Stored(bk, t, LatestTimestamp(bk, t))

\* /tmp/{table}_{ts}_part{part}.parquet and /tmp/restore_{table}_{basename}
BackupTemp(t, ts, k) == [kind |-> "backup", table |-> t, ts |-> ts, part |-> k]
RestoreTemp(t, k) == [kind |-> "restore", table |-> t, ts |-> 0, part |-> k]

\* a cleanup that runs only when nothing was raised
KeepTempFilesOnError(d, files, raised) == IF raised THEN d ELSE d \ files

\* the finally block of the backup: os.remove of every path in tmp_files,
\* whether or not the export or an upload raised
RemoveTempFiles(d, files, raised) == d \ files

\* a removal that is skipped when the partition raised
RemoveTempOnSuccess(d, f, raised) == IF raised THEN d ELSE d \ {f}

\* the finally block around the decode and load of one downloaded partition
RemoveTemp(d, f, raised) == d \ {f}

RECURSIVE RestoreTemps(_, _, _, _, _)
\* the temporary files of partitions k..n of a restore that attempts n
\* partitions, the last of which fails at `stage`: download_file raises
\* before the try block and leaves no file; a decode or load that raises,
\* an empty partition and a loaded partition all pass the finally block.
\* held: the restore files found on disk when a partition was downloaded.
RestoreTemps(d, t, k, n, stage) ==
    IF k > n THEN [disk |-> d, held |-> {}]
    ELSE LET f == RestoreTemp(t, k)
             found == {g \in d : g.kind = "restore"}
         IN IF k = n /\ stage = "download" THEN [disk |-> d, held |-> found]
            ELSE [RestoreTemps(RemoveTemp(d \cup {f}, f, k = n /\ stage = "load"),
                               t, k + 1, n, stage)
                      EXCEPT !.held = @ \cup found]

\* conn = psycopg2.connect(...): a connection of its own, named here by the
\* operation and the position of the call in it
Connect(p, id) == p \cup {id}

\* a close that is reached only after the commit
CloseOnCommit(p, id, raised) == IF raised THEN p ELSE p \ {id}

\* finally: conn.close()
Close(p, id, raised) == p \ {id}

RECURSIVE Scoped(_, _, _, _, _)
\* calls k..n of operation op that work on the store (a truncate, a chunk
\* load, a backup read, a partition restore), each between its own connect
\* and its finally; call n raises when `raised`
Scoped(p, op, k, n, raised) ==
    IF k > n THEN p
    ELSE Scoped(Close(Connect(p, <<op, k>>), <<op, k>>, raised /\ k = n),
                op, k + 1, n, raised)

\* the operation that has just ended met a bulk load that failed
LoadFailed == slog.refused \/ slog.failedAt > 0 \/ slog.fault = "load"

\* where an injected failure may hit a run of n loads (0: nowhere)
FailPoints(n) == IF MayFail THEN 0..n ELSE {0}

\* the operation that has just ended met no failure of the store or of
\* object storage
Clean == slog.ok /\ slog.truncated /\ slog.failedAt = 0 /\ slog.fault = "none"

\* what an operation records of the one before it: whether that was a clean
\* run of op on table t (working on the same input, when one is given)
Previous(op, t, input) ==
    /\ slog.op = op /\ slog.table = t /\ Clean
    /\ op = "truncate_load" => slog.input = input

\* the failures one operation may meet besides a failing chunk or partition
Faults(kinds) == IF MayFail THEN {"none"} \cup kinds ELSE {"none"}

\* load_from_minio_to_postgres(t) on a staged file: the truncate, the listing,
\* the read of the file or one chunk may fail
StoreTruncateLoad ==
    \E t \in Tables, fault \in Faults({"truncate", "list", "read"}) :
    \E f \in (IF t = "departments" THEN DepartmentFiles
              ELSE IF t = "jobs" THEN JobFiles ELSE EmployeeFiles) :
    \E failAt \in FailPoints(Len(SplitChunks(CleanDataframe(t, f.rows)))) :
        /\ slog.n < MaxOps
        /\ fault # "none" => failAt = 0
        /\ LET truncOk == fault # "truncate"
               goesOn == TruncateOutcome(truncOk) = "proceed" /\ fault \notin {"list", "read"}
               d1 == IF truncOk THEN TruncateTable(db, t) ELSE db
               cleaned == IF goesOn THEN CleanDataframe(t, f.rows) ELSE <<>>
               out == LoadBatches(d1, t, cleaned, failAt, 1)
           IN /\ db' = out.db
              /\ seq' = IF truncOk THEN RestartIdentity(seq, t) ELSE seq
              /\ slog' = [op |-> "truncate_load", table |-> t, truncated |-> truncOk,
                          refused |-> out.refused, n |-> slog.n + 1,
                          ok |-> TruncateOutcome(truncOk) = "proceed" /\ fault # "list",
                          fault |-> fault, failedAt |-> failAt, attempts |-> out.attempts,
                          before |-> db[t], base |-> d1[t],
                          input |-> CleanDataframe(t, f.rows), output |-> <<>>,
                          follows |-> Previous("truncate_load", t, CleanDataframe(t, f.rows)),
                          ts |-> 0, written |-> 0, stage |-> "",
                          conns |-> 1 + out.attempts, afterFailure |-> LoadFailed, held |-> {}]
              /\ pg' = Scoped(Scoped(pg, slog.n + 1, 1, 1, ~truncOk), slog.n + 1,
                              2, 1 + out.attempts,
                              out.refused \/ (failAt > 0 /\ out.attempts = failAt))
        /\ faults' = faults + (IF fault = "none" /\ failAt = 0 THEN 0 ELSE 1)
        /\ UNCHANGED <<backups, clock, disk, migVars, conVars, valVars>>

\* _flush(t) on a batch of buffered records
StoreFlush ==
    \E t \in Tables, f1 \in BOOLEAN, f2 \in BOOLEAN :
    \E b \in StreamBatches(t) :
        /\ ~(f1 /\ f2)
        /\ (f1 \/ f2) => MayFail
        /\ slog.n < MaxOps
        /\ LET st == Store(db, seq, [o \in Offs(b) |-> 0])
               a == FlushFirst(st, t, b, f1)
               out == FlushBody(st, t, b, f1, f2)
               n1 == IF RaisesKeyError(t, b) \/ SkipsWithId(t, b) THEN 0 ELSE 1
               n2 == IF a.ok /\ WithoutId(t, b, a.seq) # <<>> THEN 1 ELSE 0
           IN /\ db' = out.db
              /\ seq' = out.seq
              /\ pg' = Scoped(Scoped(pg, slog.n + 1, 1, n1, ~a.ok), slog.n + 1,
                              n1 + 1, n1 + n2, ~out.ok)
              /\ slog' = [op |-> "flush", table |-> t, truncated |-> TRUE,
                          refused |-> ~out.ok /\ ~f1 /\ ~f2, n |-> slog.n + 1,
                          ok |-> out.ok, fault |-> IF f1 \/ f2 THEN "load" ELSE "none",
                          failedAt |-> 0, attempts |-> 0,
                          before |-> db[t], base |-> db[t],
                          input |-> b, output |-> <<>>, follows |-> FALSE,
                          ts |-> 0, written |-> 0, stage |-> "",
                          conns |-> n1 + n2, afterFailure |-> LoadFailed, held |-> {}]
        /\ faults' = faults + (IF f1 \/ f2 THEN 1 ELSE 0)
        /\ UNCHANGED <<backups, clock, disk, migVars, conVars, valVars>>

\* backup_table_to_parquet_in_minio(t, chunk_size): ts is read from the clock
\* (the same second as the last backup, or a later one), the table is
\* exported to local partition files on one connection, the files are
\* uploaded one by one, and the finally block removes the local files. An
\* export that fails has written `failAt` files; pq.write_table leaves no
\* file of its own when it raises.
StoreBackup ==
    \E t \in Tables, fault \in Faults({"export"}), ts \in {clock, clock + 1} :
    \E failAt \in FailPoints(Len(SplitBy(db[t], chunk_size))) :
        /\ slog.n < MaxOps
        /\ LET parts == SplitBy(db[t], chunk_size)
               w == IF fault = "export" THEN failAt ELSE Len(parts)
               files == {BackupTemp(t, ts, k) : k \in 1..w}
               out == IF fault = "export"
                      THEN [uploaded |-> <<>>, ok |-> FALSE, attempts |-> 0]
                      ELSE UploadParts(parts, failAt, 1)
           IN /\ backups' = [backups EXCEPT ![t] = PutObjects(@, ts, out.uploaded)]
              /\ disk' = RemoveTempFiles(disk \cup files, files, ~out.ok)
              /\ pg' = Scoped(pg, slog.n + 1, 1, 1, fault = "export")
              /\ slog' = [op |-> "backup", table |-> t, truncated |-> TRUE,
                          refused |-> FALSE, n |-> slog.n + 1,
                          ok |-> out.ok, fault |-> fault,
                          failedAt |-> IF fault = "export" THEN 0 ELSE failAt,
                          attempts |-> out.attempts,
                          before |-> db[t], base |-> db[t],
                          input |-> parts, output |-> out.uploaded, follows |-> FALSE,
                          ts |-> ts, written |-> w, stage |-> "",
                          conns |-> 1, afterFailure |-> LoadFailed, held |-> {}]
        /\ clock' = ts
        /\ faults' = faults + (IF fault = "none" /\ failAt = 0 THEN 0 ELSE 1)
        /\ UNCHANGED <<db, seq, migVars, conVars, valVars>>

\* restore_table_from_parquet_in_minio(t) with no backup_path: the latest
\* snapshot is resolved first (none: return False), then the table is
\* truncated, then the partitions are listed (the listing may raise: return
\* False) and loaded in key order
StoreRestore ==
    \E t \in Tables, fault \in Faults({"truncate", "list"}), stage \in {"download", "load"} :
    \E failAt \in FailPoints(Len(LatestSnapshot(backups, t))) :
        /\ slog.n < MaxOps
        /\ fault # "none" => failAt = 0
        /\ fault # "none" => backups[t] # <<>>
        /\ failAt = 0 => stage = "load"
        /\ LET parts == LatestSnapshot(backups, t)
               found == backups[t] # <<>>
               truncOk == fault # "truncate"
               goesOn == found /\ TruncateOutcome(truncOk) = "proceed" /\ fault # "list"
               d1 == IF found /\ truncOk THEN TruncateTable(db, t) ELSE db
               out == IF goesOn THEN RestoreParts(d1, t, parts, failAt, 1)
                      ELSE [db |-> d1, refused |-> FALSE, ok |-> FALSE, attempts |-> 0]
               failed == IF out.ok \/ out.attempts = 0 THEN ""
                         ELSE IF out.refused THEN "load" ELSE stage
               loads == {k \in 1..out.attempts :
                            parts[k] # <<>> /\ ~(k = out.attempts /\ failed = "download")}
           IN /\ db' = out.db
              /\ seq' = IF found /\ truncOk THEN RestartIdentity(seq, t) ELSE seq
              /\ disk' = RestoreTemps(disk, t, 1, out.attempts, failed).disk
              /\ pg' = Scoped(Scoped(pg, slog.n + 1, 1, IF found THEN 1 ELSE 0, ~truncOk),
                              slog.n + 1, 2, 1 + Cardinality(loads),
                              failed = "load" /\ out.attempts \in loads)
              /\ slog' = [op |-> "restore", table |-> t, truncated |-> truncOk,
                          refused |-> out.refused, n |-> slog.n + 1,
                          ok |-> out.ok, fault |-> fault, failedAt |-> failAt,
                          attempts |-> out.attempts,
                          before |-> db[t], base |-> d1[t],
                          input |-> parts, output |-> <<>>,
                          follows |-> Previous("backup", t, <<>>),
                          ts |-> LatestTimestamp(backups, t), written |-> 0,
                          stage |-> failed,
                          conns |-> (IF found THEN 1 ELSE 0) + Cardinality(loads),
                          afterFailure |-> LoadFailed,
                          held |-> RestoreTemps(disk, t, 1, out.attempts, failed).held]
        /\ faults' = faults + (IF fault = "none" /\ failAt = 0 THEN 0 ELSE 1)
        /\ UNCHANGED <<backups, clock, migVars, conVars, valVars>>

NextStore ==
    \/ StoreTruncateLoad
    \/ StoreFlush
    \/ StoreBackup
    \/ StoreRestore

\* the tables as a migration of the complete files leaves them
MigratedDb ==
    [t \in Tables |->
        CleanDataframe(t, (CHOOSE f \in (IF t = "departments" THEN DepartmentFiles
                                         ELSE IF t = "jobs" THEN JobFiles
                                         ELSE EmployeeFiles) : f.header = "full").rows)]

\* object storage holding no snapshot, or one snapshot of each table taken
\* after such a migration; the one of jobs was written by another tool and
\* its first part file holds no row
NoBackups == [t \in Tables |-> <<>>]
OlderBackups ==
    [t \in Tables |->
        <<Snapshot(1, (IF t = "jobs" THEN <<<<>>>> ELSE <<>>)
                          \o SplitBy(MigratedDb[t], chunk_size))>>]

InitStore ==
    /\ db \in {EmptyDb, PopulatedDb, LoadedDb}
    /\ seq = 1
    /\ faults = 0
    /\ MigrateIdle
    /\ ConsumerIdle
    /\ backups \in {NoBackups, OlderBackups}
    /\ clock = 1
    /\ disk = {}
    /\ pg = NoConnections
    /\ slog = NoOperation
    /\ ValidatorIdle

SpecStore == InitStore /\ [][NextStore]_vars

----------------------------------------------------------------------------
(* One call of validate_and_log_record on one record *)

\* the records a caller can pass for a table
Records(t) ==
    IF t = "hired_employees"
    THEN { Row(i, n, d, dep, job, 0) :
             i \in {NULL, JUNK, 0, 1, 3, BIG},
             n \in {"", "X", "R&D!", "Ana"},
             d \in {"", "junk", "future", "past"},
             dep \in {NULL, JUNK, 0, 1, 9},
             job \in {NULL, JUNK, 0, 1, 9} }
    ELSE { Ref(i, n, 0) : i \in {NULL, JUNK, 0, 1, 3, BIG},
                          n \in {"", "X", "R&D!", "Ana"} }

\* required_fields of the consumer: the fields a record of the table must carry
RequiredFields(t) ==
    IF t = "hired_employees" THEN {"name", "datetime", "department_id", "job_id"}
    ELSE {"id", "name"}

\* the call reaches an objects.filter(...).exists() lookup
Queries(t, r) ==
    IF t = "hired_employees"
    THEN /\ ValidateHiredEmployee(EmptyDb, r).kind # "MISSING_REQUIRED_FIELDS"
         /\ r.datetime # "junk"
         /\ \/ r.department_id > 0
            \/ r.job_id > 0
            \/ r.id > 0
    ELSE t \in Tables /\ r.name # "" /\ (r.id > 0 \/ r.id = BIG)

\* the lookup raised: validate_and_log_record has no handler
Raised == [valid |-> FALSE, kind |-> "RAISED", errors |-> {}]

InitValidate ==
    /\ db \in {ConsumerDb(<<>>), ConsumerDb(<<Row(1, "Ana", "past", 1, 1, 0)>>)}
    /\ seq = 1
    /\ faults = 0
    /\ MigrateIdle
    /\ ConsumerIdle
    /\ StoreIdle
    /\ \E t \in Tables \cup {"payroll"} : \E r \in Records(t) :
          vcall = [table |-> t, record |-> r, result |-> Accepted, done |-> FALSE]

ValidateAndLogRecord ==
    /\ ~vcall.done
    /\ vcall.table # ""
    /\ LET v == Validate(db, vcall.table, vcall.record)
       IN \/ /\ MayFail
             /\ Queries(vcall.table, vcall.record)
             /\ faults' = faults + 1
             /\ vcall' = [vcall EXCEPT !.result = Raised, !.done = TRUE]
             /\ UNCHANGED vlog
          \/ /\ v.valid
             /\ vcall' = [vcall EXCEPT !.result = v, !.done = TRUE]
             /\ UNCHANGED <<faults, vlog>>
          \/ /\ ~v.valid
             /\ vcall' = [vcall EXCEPT !.result = v, !.done = TRUE]
             /\ \/ vlog' = Append(vlog, vcall.record.off) /\ UNCHANGED faults
                \/ MayFail /\ faults' = faults + 1 /\ UNCHANGED vlog
    /\ UNCHANGED <<db, seq, cpc, running, buffers, last_flush, frame, kafka, clog>>
    /\ UNCHANGED <<migVars, bakVars>>

NextValidate == ValidateAndLogRecord

SpecValidate == InitValidate /\ [][NextValidate]_vars



Range(s) == {s[k] : k \in 1..Len(s)}

----------------------------------------------------------------------------
(* C1 (as stated): when a truncate-load has ended the table holds exactly  *)
(* the cleaned rows of the staged file or exactly the rows it held before. *)
C1_AllOrNothing ==
    mpc = "ret" => (db[CurTable] = mlog.cleaned \/ db[CurTable] = mlog.prior)

(* C1 (amended): when a truncate-load has ended the table holds what the   *)
(* truncate step left (nothing when it succeeded, the prior rows when it   *)
(* failed) followed by exactly the rows of the chunks that precede the     *)
(* first failing chunk, and by all chunks when the file was read and no    *)
(* chunk failed.                                                           *)
C1_ChunkPrefix ==
    mpc = "ret" =>
        /\ db[CurTable] = (IF mlog.truncated THEN <<>> ELSE mlog.prior)
                          \o Flatten(SubSeq(SplitChunks(mlog.cleaned), 1, mlog.loaded))
        /\ mlog.failedAt = 0 => mlog.loaded = Len(SplitChunks(mlog.cleaned))
        /\ mlog.failedAt > 0 => mlog.loaded = mlog.failedAt - 1

\* a second chunk failed after the truncate and the first chunk were committed
C1_Witness ==
    /\ mpc = "ret" /\ mlog.truncated /\ mlog.failedAt = 2
    /\ db[CurTable] # <<>> /\ db[CurTable] # mlog.cleaned /\ db[CurTable] # mlog.prior

(* C2: a chunk whose bulk insert fails makes load_from_minio_to_postgres   *)
(* return failure, the table is recorded as failed and no later table is   *)
(* migrated.                                                               *)
C2_ChunkFailureSurfaced ==
    /\ (mpc = "ret" /\ mlog.failedAt > 0) => mlog.ret = "false"
    /\ \A t \in mlog.chunkFailed :
          /\ results[t] = "failed"
          /\ mlog.started[Len(mlog.started)] = t

(* C8: every committed hired_employees row passed the existence check of   *)
(* department_id and job_id when it was validated.                         *)
C8_CheckedBeforeCommit ==
    \A k \in 1..Len(db["hired_employees"]) :
        LET r == db["hired_employees"][k]
        IN r.off = 0 \/ r.off \in clog.fkChecked

(* C10: the truncate-load of hired_employees never starts before the       *)
(* truncate-loads of departments and jobs have completed.                  *)
C10_FixedOrder ==
    "hired_employees" \in Range(mlog.started) =>
        {"departments", "jobs"} \subseteq Range(mlog.ended)

C12_StatusMap ==
    (mode = "full" /\ mpc = "done") =>
        \A t \in Tables :
            /\ results[t] \in {"success", "failed", "file_not_found"}
            /\ results[t] = "file_not_found" <=> ~fileExists[t]
            /\ results[t] = "failed" <=>
                  (fileExists[t] /\ (t \notin Range(mlog.started) \/ t \in mlog.loadFailed))

Ceil(n, b) == (n + b - 1) \div b

(* C13: _load_with_copy_batches on N rows with batch size B makes          *)
(* ceil(N/B) chunks of B rows (the last holds the remainder) in row order  *)
(* and loads them one by one; the table holds the chunks loaded so far,    *)
(* and when chunk k fails exactly chunks 1..k-1 are committed and no       *)
(* further chunk is attempted.                                             *)
C13_ChunkedLoad ==
    LET cs == SplitChunks(mlog.cleaned)
        N == Len(mlog.cleaned)
        base == IF mlog.truncated THEN <<>> ELSE mlog.prior
    IN mpc \in {"load", "ret"} =>
        /\ Len(cs) = Ceil(N, batch_size)
        /\ \A k \in 1..Len(cs) :
              Len(cs[k]) = IF k < Len(cs) THEN batch_size ELSE N - (Len(cs) - 1) * batch_size
        /\ Flatten(cs) = mlog.cleaned
        /\ db[CurTable] = base \o Flatten(SubSeq(cs, 1, mlog.loaded))
        /\ mpc = "load" =>
              /\ mlog.failedAt = 0 /\ mlog.attempts = mlog.loaded
              /\ chunks = Flatten(SubSeq(cs, mlog.loaded + 1, Len(cs)))
        /\ (mpc = "ret" /\ mlog.failedAt = 0 /\ ~mlog.readFailed /\ mlog.ret = "true") =>
              mlog.attempts = Ceil(N, batch_size) /\ mlog.loaded = mlog.attempts
        /\ (mpc = "ret" /\ mlog.failedAt > 0) =>
              /\ mlog.loaded = mlog.failedAt - 1
              /\ mlog.attempts = mlog.failedAt
              /\ chunks = <<>>

\* three rows in chunks of two and one: the first was committed, the second
\* was attempted and failed
C13_Witness ==
    /\ mpc = "ret" /\ Len(mlog.cleaned) = batch_size + 1
    /\ mlog.attempts = 2 /\ mlog.loaded = 1 /\ mlog.failedAt = 2
    /\ Len(db[CurTable]) = batch_size

(* C30: a row of a staged hired_employees file that carries no id and is   *)
(* otherwise valid (a name, a past date, a department and a job that       *)
(* exist) is committed once the file was loaded without failure.           *)
C30_NoIdRowStored ==
    (mpc = "done" /\ faults = 0 /\ results["hired_employees"] = "success") =>
        \A k \in 1..Len(csv["hired_employees"].rows) :
            LET r == csv["hired_employees"].rows[k]
            IN (/\ r.id = NULL /\ r.name # "" /\ r.datetime = "past"
                /\ r.department_id \in Ids(db["departments"])
                /\ r.job_id \in Ids(db["jobs"]))
               => \E j \in 1..Len(db["hired_employees"]) :
                      db["hired_employees"][j].off = r.off

----------------------------------------------------------------------------
(* Claims on the streaming consumer *)

StreamRows == db["departments"] \o db["jobs"] \o db["hired_employees"]
Committed == Offs(StreamRows) \ {0}
Buffered == UNION {Offs(buffers[t]) : t \in Tables}
Count(s, x) == Cardinality({k \in 1..Len(s) : s[k] = x})

(* C3: every record appended to a buffer is handed to the bulk loader      *)
(* exactly once: never by two flushes, and never cleared without having    *)
(* been handed over.                                                       *)
C3_HandedExactlyOnce ==
    /\ \A o \in Offsets : clog.handed[o] <= 1
    /\ clog.lost = {}

\* the part of C3 that only a signal in the middle of a flush can break
NeverHandedTwice == \A o \in Offsets : clog.handed[o] <= 1

(* C4: after a shutdown signal, when the consumer command returns, every   *)
(* per-table buffer is empty.                                              *)
C4_EmptyAtExit ==
    (cpc = "done" /\ kafka.signalled) => \A t \in Tables : buffers[t] = <<>>

(* C5: a record whose explicit id repeats that of a record still in the    *)
(* same buffer is rejected on its own, and the valid records of a batch    *)
(* (the first of each id) are committed by a flush that met no store       *)
(* failure.                                                                *)
C5_RejectedIndividually ==
    /\ \A t \in Tables : \A j, k \in 1..Len(buffers[t]) :
          (buffers[t][j].id # NULL /\ buffers[t][j].id = buffers[t][k].id) => j = k
    /\ clog.settled \subseteq Committed

(* C6: a record that validation rejected is in no buffer, was never handed *)
(* to the bulk loader and is in no table; no streamed record dated in the  *)
(* future is ever buffered or committed.                                   *)
C6_RejectedNeverStored ==
    /\ \A o \in clog.rejected :
          /\ o \notin Buffered
          /\ o \notin clog.appended
          /\ clog.handed[o] = 0
          /\ o \notin Committed
    /\ \A t \in Tables : \A k \in 1..Len(buffers[t]) : buffers[t][k].datetime # "future"
    /\ \A k \in 1..Len(StreamRows) :
          StreamRows[k].off # 0 => StreamRows[k].datetime # "future"

\* the employee with id 5 and a future date was rejected, another employee
\* of the stream was committed, and id 5 is not in the table
C6_Witness ==
    /\ \E o \in clog.rejected : o \in Range(vlog)
    /\ kafka.polled >= 2
    /\ \E k \in 1..Len(db["hired_employees"]) : db["hired_employees"][k].off # 0
    /\ 5 \notin Ids(db["hired_employees"])
    /\ clog.rejected # {}

(* C7: every rejected record has exactly one validation-log entry, also    *)
(* when the write of the entry fails.                                      *)
C7_LoggedExactlyOnce ==
    \A o \in clog.rejected : Count(vlog, o) = 1

----------------------------------------------------------------------------
(* C9: in each of the three tables no two committed rows share the same    *)
(* id, whatever truncate-loads, stream flushes and restores were run,      *)
(* including those whose truncate step failed.                             *)
C9_UniqueIds ==
    \A t \in Tables : \A j, k \in 1..Len(db[t]) : db[t][j].id = db[t][k].id => j = k

\* a truncate-load or restore whose truncate failed met the rows it was to
\* replace, and the store refused the chunk that repeated their ids
C9_Witness ==
    /\ slog.op \in {"truncate_load", "restore"}
    /\ ~slog.truncated
    /\ slog.refused
    /\ db[slog.table] # <<>>

(* C24: an append that fills a buffer to the batch size is followed by the  *)
(* flush of that buffer before the next poll: at every poll each buffer    *)
(* holds fewer than batch_size records, and no flush hands more than       *)
(* batch_size records to the loader.                                       *)
C24_BatchSizeBound ==
    /\ cpc = "poll" => \A t \in Tables : Len(buffers[t]) < batch_size
    /\ \A t \in Tables : Len(buffers[t]) <= batch_size
    /\ Len(frame.df) <= batch_size

\* a flush started by the size test on a full buffer
C24_Witness ==
    /\ cpc = "f_load" /\ frame.fret = "loop"
    /\ Len(frame.df) = batch_size
    /\ last_flush[frame.ftab] # NULL /\ last_flush[frame.ftab] < IdleWindow

(* C25: while the consumer keeps running, a non-empty buffer whose idle    *)
(* window has elapsed is eventually flushed, whatever keeps arriving.      *)
C25_IdleBufferFlushed ==
    \A t \in Tables :
        (running /\ buffers[t] # <<>> /\ last_flush[t] # NULL /\ last_flush[t] >= IdleWindow)
            ~> (buffers[t] = <<>> \/ ~running)

(* C26: once the signal handler has returned (stop flag set, buffers       *)
(* flushed, upstream consumer closed), the main loop makes no further bulk *)
(* load and no further poll on the closed consumer.                        *)
C26_NothingAfterShutdown ==
    [][kafka.closed => ~(FlushLoad \/ FlushLoadNoId \/ Poll)]_vars

(* C27: in a flush of the employee buffer the load of the with-id rows and *)
(* the load of the no-id rows are independent: whatever the outcome of the *)
(* first, the rows without id have been handed to the loader when the      *)
(* buffer is cleared.                                                      *)
C27_SubBatchesIndependent ==
    (cpc = "f_clear" /\ frame.ftab = "hired_employees") =>
        \A k \in 1..Len(frame.df) :
            HasNoId(frame.df[k]) => clog.handed[frame.df[k].off] >= 1

(* C29: a message whose validation met a failing store lookup is not       *)
(* appended to a buffer and has an entry in the validation log.            *)
C29_LookupFailureLogged ==
    \A o \in clog.infra : o \notin clog.appended /\ o \in Range(vlog)

----------------------------------------------------------------------------
(* Claims on whole operations *)

(* C14: a truncate step that fails inside a truncate-load or a restore     *)
(* removes nothing and is swallowed: the bulk insert is still attempted,   *)
(* and the operation reports failure only if the insert itself failed.     *)
C14_TruncateFailureSwallowed ==
    (slog.op \in {"truncate_load", "restore"} /\ ~slog.truncated) =>
        /\ slog.base = slog.before
        /\ slog.input # <<>> => slog.attempts >= 1
        /\ ~slog.refused => slog.ok

\* a restore whose truncate failed on an empty table went on to load the
\* snapshot and reported success
C14_Witness ==
    /\ slog.op = "restore" /\ ~slog.truncated
    /\ slog.attempts >= 1 /\ slog.ok
    /\ db[slog.table] # <<>>

(* C15: a replacing load run right after a replacing load of the same      *)
(* table with the same input, neither meeting a failure, leaves the table  *)
(* as the first run left it, and that content is made of chunks of the     *)
(* input only, whatever the table held at first.                           *)
C15_Idempotent ==
    (slog.op = "truncate_load" /\ slog.follows /\ Clean) =>
        /\ db[slog.table] = slog.before
        /\ \E k \in 0..Len(SplitChunks(slog.input)) :
              db[slog.table] = Flatten(SubSeq(SplitChunks(slog.input), 1, k))

\* the second of two loads of a file of two chunks
C15_Witness ==
    /\ slog.op = "truncate_load" /\ slog.follows /\ Clean
    /\ Len(SplitChunks(slog.input)) = 2
    /\ db[slog.table] = slog.input

SetOf(rows) == {rows[k] : k \in 1..Len(rows)}

(* C16: a restore of the latest snapshot run right after a backup of the   *)
(* same table, neither meeting a failure, leaves the table with the set of *)
(* rows it held at backup time, the empty table included.                  *)
C16_RoundTrip ==
    (slog.op = "restore" /\ slog.follows /\ slog.truncated
        /\ slog.failedAt = 0 /\ slog.fault = "none") =>
        SetOf(db[slog.table]) = SetOf(slog.before)

(* C17: when the download, decode or load of a partition fails during      *)
(* restore, restore reports failure and no later partition is processed:   *)
(* the table holds what the truncate left and the partitions before the    *)
(* failing one.                                                            *)
C17_RestoreStopsAtFailure ==
    (slog.op = "restore" /\ (slog.failedAt > 0 \/ slog.refused)) =>
        /\ ~slog.ok
        /\ slog.attempts \in 1..Len(slog.input)
        /\ slog.failedAt > 0 => slog.attempts <= slog.failedAt
        /\ db[slog.table] = slog.base \o Flatten(SubSeq(slog.input, 1, slog.attempts - 1))

\* the first of two partitions failed: the second was not touched
C17_Witness ==
    /\ slog.op = "restore" /\ slog.failedAt = 1 /\ Len(slog.input) = 2
    /\ slog.attempts = 1 /\ ~slog.ok
    /\ db[slog.table] = <<>>

(* C18: after a restore that found a snapshot, the table holds every row   *)
(* of the snapshot and restore reported success, or restore reported       *)
(* failure and no row of the snapshot is committed.                        *)
C18_RestoreAllOrNothing ==
    (slog.op = "restore" /\ slog.input # <<>>) =>
        \/ slog.ok /\ db[slog.table] = slog.base \o Flatten(slog.input)
        \/ ~slog.ok /\ db[slog.table] = slog.base

(* C19: backup returns the snapshot URI only if every partition was        *)
(* uploaded; when the upload of partition k fails the backup raises, no    *)
(* partition after k is uploaded and partitions 1..k-1 stay in object      *)
(* storage.                                                                *)
C19_BackupUpload ==
    slog.op = "backup" =>
        /\ slog.ok => slog.output = slog.input /\ slog.attempts = Len(slog.input)
        /\ slog.fault = "export" => ~slog.ok /\ slog.output = <<>>
        /\ slog.failedAt > 0 =>
              /\ ~slog.ok
              /\ slog.attempts = slog.failedAt
              /\ slog.output = SubSeq(slog.input, 1, slog.failedAt - 1)
        /\ \A k \in 1..Len(slog.output) :
              Stored(backups, slog.table, slog.ts)[k] = slog.output[k]

\* the upload of the second of two partitions failed and the first is the
\* latest snapshot of the table
C19_Witness ==
    /\ slog.op = "backup" /\ slog.failedAt = 2 /\ Len(slog.input) = 2
    /\ ~slog.ok
    /\ LatestSnapshot(backups, slog.table) = <<slog.input[1]>>

(* C20: a backup of N rows with write-chunk-size C that returns has made   *)
(* ceil(N/C) partitions in sequence, each of C rows except the last which  *)
(* holds the remainder, together holding every row of the table once.      *)
C20_BackupPartitions ==
    (slog.op = "backup" /\ slog.ok) =>
        LET N == Len(slog.before)
            ps == slog.output
        IN /\ Len(ps) = Ceil(N, chunk_size)
           /\ \A k \in 1..Len(ps) :
                 Len(ps[k]) = IF k < Len(ps) THEN chunk_size
                              ELSE N - (Len(ps) - 1) * chunk_size
           /\ Flatten(ps) = slog.before
           /\ \A k \in 1..Len(ps) : Stored(backups, slog.table, slog.ts)[k] = ps[k]

\* three rows with C = 2: partitions of two rows and one row
C20_Witness ==
    /\ slog.op = "backup" /\ slog.ok
    /\ Len(slog.before) = chunk_size + 1
    /\ Len(slog.output) = 2 /\ Len(slog.output[2]) = 1

(* C21: when a backup has returned or raised -- the export failed after    *)
(* writing some partition files, an upload failed, or nothing failed -- no *)
(* local temporary partition file written by that backup is on disk.       *)
C21_BackupTempRemoved ==
    slog.op = "backup" =>
        ~\E f \in disk : f.kind = "backup" /\ f.table = slog.table /\ f.ts = slog.ts

\* an export that failed after it wrote a partition file
C21_Witness ==
    /\ slog.op = "backup" /\ slog.fault = "export" /\ slog.written >= 1
    /\ ~slog.ok /\ disk = {}

(* C22: every partition file that restore downloaded is removed before the *)
(* next partition is downloaded and before restore returns, whether its    *)
(* decode and load succeeded or failed or the partition held no row.       *)
C22_RestoreTempRemoved ==
    slog.op = "restore" =>
        /\ slog.held = {}
        /\ ~\E f \in disk : f.kind = "restore" /\ f.table = slog.table

\* the load of the second partition failed after the first was restored
C22_Witness ==
    /\ slog.op = "restore" /\ slog.stage = "load" /\ slog.attempts = 2
    /\ ~slog.ok /\ disk = {}

----------------------------------------------------------------------------
(* Claims on the record validator, under SpecValidate *)

\* the call returned a verdict on a record of a known table
Returned == vcall.done /\ vcall.table \in Tables /\ vcall.result # Raised

\* the field is absent, null or blank
FieldMissing(r, f) ==
    \/ f = "id" /\ r.id = NULL
    \/ f = "name" /\ r.name = ""
    \/ f = "datetime" /\ r.datetime = ""
    \/ f = "department_id" /\ r.department_id = NULL
    \/ f = "job_id" /\ r.job_id = NULL

MissingFields(t, r) == {f \in RequiredFields(t) : FieldMissing(r, f)}

AllFields == {"id", "name", "datetime", "department_id", "job_id"}

(* C31: for every table, a record in which a required field is absent,    *)
(* null or blank is rejected as MISSING_REQUIRED_FIELDS, the rejection     *)
(* names every missing required field, and nothing but missing fields is   *)
(* reported.                                                               *)
C31_MissingFieldsCollected ==
    (Returned /\ MissingFields(vcall.table, vcall.record) # {}) =>
        /\ ~vcall.result.valid
        /\ vcall.result.kind = "MISSING_REQUIRED_FIELDS"
        /\ \A f \in MissingFields(vcall.table, vcall.record) :
               ("missing_" \o f) \in vcall.result.errors
        /\ vcall.result.errors \subseteq {"missing_" \o f : f \in AllFields}

\* an employee record with every field present and of the right form
WellFormedEmployee(r) ==
    /\ r.name \notin {"", "X", "R&D!"}
    /\ r.datetime \in {"past", "future"}
    /\ r.department_id > 0
    /\ r.job_id > 0
    /\ r.id = NULL \/ r.id > 0 \/ r.id = BIG

ReferencesHold(d, r) ==
    /\ r.department_id \in Ids(d["departments"])
    /\ r.job_id \in Ids(d["jobs"])
    /\ r.datetime # "future"

(* C32 as stated: a well-formed employee record is accepted if and only if *)
(* its department exists, its job exists and its date is not in the        *)
(* future.                                                                 *)
C32_Original ==
    (Returned /\ vcall.table = "hired_employees" /\ WellFormedEmployee(vcall.record)) =>
        (vcall.result.valid <=> ReferencesHold(db, vcall.record))

(* C32: a well-formed employee record is accepted if and only if its       *)
(* department exists, its job exists, its date is not in the future, and   *)
(* its explicit id, when it has one, is at most 2147483647 and is not the  *)
(* id of a stored employee.                                                *)
C32_EmployeeAcceptedIff ==
    (Returned /\ vcall.table = "hired_employees" /\ WellFormedEmployee(vcall.record)) =>
        (vcall.result.valid <=>
            /\ ReferencesHold(db, vcall.record)
            /\ vcall.record.id # BIG
            /\ vcall.record.id \notin Ids(db["hired_employees"]))

\* an employee with a new explicit id was accepted beside a stored employee
C32_Witness ==
    /\ Returned /\ vcall.table = "hired_employees"
    /\ WellFormedEmployee(vcall.record)
    /\ vcall.record.id = 3
    /\ db["hired_employees"] # <<>>
    /\ ReferencesHold(db, vcall.record)
    /\ vcall.result.valid

(* C33: for each of the three tables, a record whose explicit id is not an *)
(* integer in 1..2147483647, or is the id of a row of the table, is        *)
(* rejected.                                                               *)
C33_ExplicitIdChecked ==
    (/\ Returned
     /\ \/ vcall.record.id \in {JUNK, 0, BIG}
        \/ vcall.record.id \in Ids(db[vcall.table])) =>
        ~vcall.result.valid

\* the rules a record with all its fields breaks: 1 name format, 2 employee
\* date and foreign keys, 3 explicit id
RulesBroken(d, t, r) ==
    {k \in 1..3 :
        \/ k = 1 /\ NameErrors(r.name) # {}
        \/ k = 2 /\ t = "hired_employees"
                 /\ \/ r.datetime \in {"junk", "future"}
                    \/ RefErrors("department_id", r.department_id, d["departments"]) # {}
                    \/ RefErrors("job_id", r.job_id, d["jobs"]) # {}
        \/ k = 3 /\ IdErrors(r.id, d[t], MaxInt32) # {}}

FirstRule(rules) == CHOOSE k \in rules : \A j \in rules : k <= j

RuleErrors(d, t, r, k) ==
    IF k = 1 THEN NameErrors(r.name)
    ELSE IF k = 2 THEN {"date_format", "date_in_future"}
                       \cup RefErrors("department_id", r.department_id, d["departments"])
                       \cup RefErrors("job_id", r.job_id, d["jobs"])
    ELSE IdErrors(r.id, d[t], MaxInt32)

RuleKind(k) ==
    IF k = 1 THEN "FORMAT_ERROR"
    ELSE IF k = 2 THEN "REFERENTIAL_INTEGRITY_ERROR"
    ELSE "DUPLICATE_ID_ERROR"

(* C34: a record with all required fields that breaks several rules is     *)
(* rejected for the first broken rule only, in the order name format,      *)
(* employee date and foreign keys, explicit id, and the kind of the        *)
(* rejection names that rule.                                              *)
C34_FirstRuleWins ==
    (/\ Returned
     /\ ValidateHiredEmployee(db, vcall.record).kind # "MISSING_REQUIRED_FIELDS"
        \/ vcall.table # "hired_employees"
     /\ vcall.record.name # ""
     /\ Cardinality(RulesBroken(db, vcall.table, vcall.record)) >= 2) =>
        LET k == FirstRule(RulesBroken(db, vcall.table, vcall.record))
        IN /\ ~vcall.result.valid
           /\ vcall.result.errors \subseteq RuleErrors(db, vcall.table, vcall.record, k)
           /\ vcall.result.kind = RuleKind(k)

----------------------------------------------------------------------------
(* Claims on the rows of a staged file, under SpecMigrate *)

\* a row of a staged file with every field present and of the right form
WellFormedRow(t, r) ==
    /\ r.id > 0
    /\ r.name # ""
    /\ t = "hired_employees" =>
          /\ r.datetime \in {"past", "future"}
          /\ r.department_id > 0
          /\ r.job_id > 0

\* the well-formed rows of the file have ids of their own and, for
\* employees, departments and jobs that are stored
LoadableAlone(d, t, rows) ==
    /\ \A j, k \in 1..Len(rows) :
          (WellFormedRow(t, rows[j]) /\ WellFormedRow(t, rows[k]) /\ rows[j].id = rows[k].id)
              => j = k
    /\ t = "hired_employees" =>
          \A k \in 1..Len(rows) :
              WellFormedRow(t, rows[k]) =>
                  /\ rows[k].department_id \in Ids(d["departments"])
                  /\ rows[k].job_id \in Ids(d["jobs"])

(* C35: when a truncate-load in which no store or storage call failed has  *)
(* ended, no malformed row of the staged file is in the table and every    *)
(* well-formed row of the file is, provided the well-formed rows could be  *)
(* loaded on their own.                                                    *)
C35_BadRowsDropped ==
    (/\ mpc = "ret" /\ faults = 0
     /\ LoadableAlone(db, CurTable, minio[CurTable][1].rows)) =>
        LET rows == minio[CurTable][1].rows
        IN \A k \in 1..Len(rows) :
               WellFormedRow(CurTable, rows[k]) <=>
                   \E j \in 1..Len(db[CurTable]) : db[CurTable][j] = rows[k]

----------------------------------------------------------------------------
(* Claims on whole operations, under SpecStore *)

(* C36: a truncate-load or a restore of one table leaves the rows of the   *)
(* other two tables as they were before the operation.                     *)
C36_OtherTablesUnchanged ==
    [][(slog'.n = slog.n + 1 /\ slog'.op \in {"truncate_load", "restore"}) =>
          \A u \in Tables \ {slog'.table} : db'[u] = db[u]]_vars

----------------------------------------------------------------------------
(* Claims on a failing flush, under SpecConsumer *)

\* the flush in progress met a failing bulk load and has not cleared yet
FlushFailing == cpc = "f_clear" /\ frame.faulted

(* C37: a flush whose bulk load failed empties the buffer of its table and *)
(* resets its last-flush time, and no record of the failed batch is handed *)
(* to the loader a second time.                                            *)
C37_FailedFlushNotRetried ==
    [][FlushFailing =>
          /\ \A k \in 1..Len(frame.df) : clog'.handed[frame.df[k].off] <= 1
          /\ buffers'[frame.ftab] = <<>>
          /\ last_flush'[frame.ftab] = 0]_vars

\* the same, for the steps of the loop only
C37_WithoutSignal ==
    [][(FlushFailing /\ ~kafka'.signalled) =>
          /\ \A k \in 1..Len(frame.df) : clog'.handed[frame.df[k].off] <= 1
          /\ buffers'[frame.ftab] = <<>>
          /\ last_flush'[frame.ftab] = 0]_vars

\* the step is one whole operation op
Operation(op) == slog'.n = slog.n + 1 /\ slog'.op = op

(* C38: a backup that uploads a partition writes under a timestamp that no *)
(* earlier backup of the table used, and the directory of that timestamp   *)
(* then holds the partitions of this backup and no other.                  *)
C38_OneBackupPerDirectory ==
    [][(Operation("backup") /\ slog'.output # <<>>) =>
          /\ Stored(backups, slog'.table, slog'.ts) = <<>>
          /\ Stored(backups', slog'.table, slog'.ts) = slog'.output]_vars

\* a backup that aborted after uploading partitions left the latest directory
AbortedLatest ==
    /\ slog.op = "backup" /\ ~slog.ok /\ slog.output # <<>>
    /\ LatestTimestamp(backups, slog.table) = slog.ts
    /\ Stored(backups, slog.table, slog.ts) = slog.output

(* C39: a restore without a snapshot path that follows an aborted backup   *)
(* of the table does not take the directory the aborted backup left, with  *)
(* only the partitions uploaded before it aborted, and does not report     *)
(* success after loading it.                                               *)
C39_AbortedBackupNotRestored ==
    [][(AbortedLatest /\ Operation("restore") /\ slog'.table = slog.table) =>
          /\ slog'.ts # slog.ts
          /\ ~(slog'.ok /\ slog'.input = slog.output)]_vars

(* C40: a restore that failed before it tried any partition -- the table   *)
(* has no snapshot, or the listing of the snapshot failed -- leaves the    *)
(* table as it was before the call.                                        *)
C40_FailedRestoreKeepsTable ==
    (slog.op = "restore" /\ ~slog.ok /\ slog.attempts = 0) =>
        db[slog.table] = slog.before

====
